---- MODULE Spec2Model ----
(***************************************************************************)
(* Model of src/replication/readevent.rs: the binlog event header decoder  *)
(* and the Query / Xid / Rotate / TableMap / Gtid body decoders, run over  *)
(* a seekable byte source.                                                 *)
(*                                                                         *)
(* Offsets are 0-based (as Seek reports them); data[i+1] is the byte at    *)
(* offset i.  A u8 or u16 is a number.  A u32 or u64 is a number written   *)
(* in base 2^24, least significant digit first and without leading zero    *)
(* digits (so 5 is <<5>> and 0 is << >>): the decoders meet values of the  *)
(* full width when they read bytes that are not the field they take them   *)
(* for.  A String is [chars |-> its code points up to the last one that   *)
(* is not NUL, nuls |-> the number (in base 2^24) of NUL characters that   *)
(* end it]: a buffer that a failed read left unfilled decodes to as many   *)
(* NUL characters as it has bytes.                                         *)
(***************************************************************************)
EXTENDS Integers, Sequences, FiniteSets, TLC

VARIABLES conntype, buf, pc, header, event, outcome, ghost, input, decoded

vars == <<conntype, buf, pc, header, event, outcome, ghost, input, decoded>>

\* ------------------------------------------------------------------ bounds
\* number of events in a stream
MaxEvents == 2
\* number of columns of a table map event
MaxCols == 2
\* length of a text field (database, table, file name, command)
MaxText == 1

\* ------------------------------------------------------- byte primitives
Byte == 0..255

\* vec![0u8; n]
Zeros(n) == IF n <= 0 THEN << >> ELSE [i \in 1..n |-> 0]

RECURSIVE Concat(_)
Concat(ss) == IF ss = << >> THEN << >> ELSE Head(ss) \o Concat(Tail(ss))

\* bytes [p, p+n) of d, clipped to the end of d
Slice(d, p, n) ==
  IF p >= Len(d) \/ n <= 0 THEN << >>
  ELSE SubSeq(d, p + 1, IF p + n <= Len(d) THEN p + n ELSE Len(d))

\* a read of exactly n bytes at offset p succeeds
CanRead(d, p, n) == p + n <= Len(d)

RECURSIVE LEValue(_)
\* little-endian value of a byte sequence
LEValue(bs) == IF bs = << >> THEN 0 ELSE Head(bs) + 256 * LEValue(Tail(bs))

\* buf.read_u8(), buf.read_u16::<LittleEndian>() at offset p
ReadLE(d, p, n) == LEValue(Slice(d, p, n))

RECURSIVE Canon(_)
\* digits without leading (most significant) zero digits
Canon(ds) ==
  IF ds = << >> THEN << >>
  ELSE IF ds[Len(ds)] = 0 THEN Canon(SubSeq(ds, 1, Len(ds) - 1)) ELSE ds

\* the value of little-endian bytes (at most 8) in base 2^24
Wide(bs) ==
  Canon(<<LEValue(Slice(bs, 0, 3)), LEValue(Slice(bs, 3, 3)),
          LEValue(Slice(bs, 6, 3))>>)

\* buf.read_u32::<LittleEndian>(), buf.read_u64::<LittleEndian>() at offset p
ReadWide(d, p, n) == Wide(Slice(d, p, n))

\* a number below 2^31 in base 2^24
U(v) == Canon(<<v % 16777216, v \div 16777216>>)

\* the three base 2^24 digits of a value below 2^72
Pad(w) == [i \in 1..3 |-> IF i <= Len(w) THEN w[i] ELSE 0]

\* a < b for two values in base 2^24
WLess(a, b) ==
  LET x == Pad(a)
      y == Pad(b)
  IN  \/ x[3] < y[3]
      \/ x[3] = y[3] /\ x[2] < y[2]
      \/ x[3] = y[3] /\ x[2] = y[2] /\ x[1] < y[1]

\* a + b for two values in base 2^24 whose sum is below 2^72
WAdd(a, b) ==
  LET x == Pad(a)
      y == Pad(b)
      s1 == x[1] + y[1]
      s2 == x[2] + y[2] + s1 \div 16777216
      s3 == x[3] + y[3] + s2 \div 16777216
  IN  Canon(<<s1 % 16777216, s2 % 16777216, s3>>)

\* a - b for two values in base 2^24 with b <= a
WSub(a, b) ==
  LET x == Pad(a)
      y == Pad(b)
      d1 == x[1] - y[1]
      b1 == IF d1 < 0 THEN 1 ELSE 0
      d2 == x[2] - y[2] - b1
      b2 == IF d2 < 0 THEN 1 ELSE 0
      d3 == x[3] - y[3] - b2
  IN  Canon(<<d1 + b1 * 16777216, d2 + b2 * 16777216, d3>>)

\* 2^64 in base 2^24
TwoTo64 == <<0, 0, 65536>>

\* the number a value below 2^31 is (a length or an offset within a source)
Num(w) ==
  IF Len(w) = 0 THEN 0
  ELSE IF Len(w) = 1 THEN w[1] ELSE w[1] + 16777216 * w[2]

RECURSIVE ToLE(_, _)
\* the n-byte little-endian encoding of v
ToLE(v, n) == IF n = 0 THEN << >> ELSE <<v % 256>> \o ToLE(v \div 256, n - 1)

\* Seek::seek(SeekFrom::Current(n)): moves the position, also past the end
SeekCurrent(p, n) == p + n

\* Tell::tell: the absolute offset, position unchanged
Tell(p) == p

\* Read::read_exact into a zeroed buffer of n bytes, its Result ignored by
\* the caller.  A read of no bytes succeeds at every position, also past
\* the end.  Otherwise on success the n bytes and p+n, and on a short
\* source the contents of the buffer and the position are left to the
\* reader: a Cursor leaves the buffer zeroed and the position either where
\* it was or at the end of the source (to which it also comes back from a
\* position past the end); a streaming reader copies what there was and
\* stops at the end of the source, or stays where it was past the end.
\* The buffer is given as the bytes at its head and the number of zero
\* bytes after them; num, its size, is a value in base 2^24.
ReadExactInto(d, p, num) ==
  LET avail == IF p > Len(d) THEN 0 ELSE Len(d) - p
  IN  IF num = << >>
      THEN {[head |-> << >>, zeros |-> << >>, pos |-> p, ok |-> TRUE]}
      ELSE IF ~WLess(U(avail), num)
      THEN {[head |-> Slice(d, p, Num(num)), zeros |-> << >>,
             pos |-> p + Num(num), ok |-> TRUE]}
      ELSE LET got == Slice(d, p, avail)
           IN {[head |-> << >>, zeros |-> num, pos |-> p, ok |-> FALSE],
               [head |-> << >>, zeros |-> num, pos |-> Len(d), ok |-> FALSE],
               [head |-> got, zeros |-> WSub(num, U(Len(got))),
                pos |-> IF p > Len(d) THEN p ELSE Len(d), ok |-> FALSE]}

\* read_exact into a buffer of a u8 or fixed size n, the buffer as its bytes
ReadExact(d, p, n) ==
  { [bytes |-> r.head \o Zeros(Num(r.zeros)), pos |-> r.pos, ok |-> r.ok]
    : r \in ReadExactInto(d, p, U(n)) }

\* Read::read_to_end: every byte from p to the end of the source
ReadToEnd(d, p) ==
  [bytes |-> Slice(d, p, Len(d)), pos |-> IF p > Len(d) THEN p ELSE Len(d)]

\* ------------------------------------------------- event classification
\* get_type_code_event without the arm for type code 38
get_type_code_event_without_xa(type_code) ==
  CASE type_code = 4  -> "RotateLogEvent"
    [] type_code = 2  -> "QueryEvent"
    [] type_code = 33 -> "GtidEvent"
    [] type_code = 19 -> "TableMapEvent"
    [] type_code = 30 -> "WriteEvent"
    [] type_code = 31 -> "UpdateEvent"
    [] type_code = 32 -> "DeleteEvent"
    [] type_code = 16 -> "XidEvent"
    [] OTHER          -> "UNKNOWNEVENT"

\* EventHeader::get_type_code_event
get_type_code_event(type_code) ==
  CASE type_code = 4  -> "RotateLogEvent"
    [] type_code = 2  -> "QueryEvent"
    [] type_code = 33 -> "GtidEvent"
    [] type_code = 19 -> "TableMapEvent"
    [] type_code = 30 -> "WriteEvent"
    [] type_code = 31 -> "UpdateEvent"
    [] type_code = 32 -> "DeleteEvent"
    [] type_code = 16 -> "XidEvent"
    [] type_code = 38 -> "XAPREPARELOGEVENT"
    [] OTHER          -> "UNKNOWNEVENT"

\* ------------------------------------------------- column type registry
\* meta::ColumnTypeDict::from_type_code: the MySQL column type codes; a code
\* outside the table is the explicit unrecognised kind.
from_type_code(code) ==
  CASE code = 0   -> "MYSQL_TYPE_DECIMAL"
    [] code = 1   -> "MYSQL_TYPE_TINY"
    [] code = 2   -> "MYSQL_TYPE_SHORT"
    [] code = 3   -> "MYSQL_TYPE_LONG"
    [] code = 4   -> "MYSQL_TYPE_FLOAT"
    [] code = 5   -> "MYSQL_TYPE_DOUBLE"
    [] code = 6   -> "MYSQL_TYPE_NULL"
    [] code = 7   -> "MYSQL_TYPE_TIMESTAMP"
    [] code = 8   -> "MYSQL_TYPE_LONGLONG"
    [] code = 9   -> "MYSQL_TYPE_INT24"
    [] code = 10  -> "MYSQL_TYPE_DATE"
    [] code = 11  -> "MYSQL_TYPE_TIME"
    [] code = 12  -> "MYSQL_TYPE_DATETIME"
    [] code = 13  -> "MYSQL_TYPE_YEAR"
    [] code = 14  -> "MYSQL_TYPE_NEWDATE"
    [] code = 15  -> "MYSQL_TYPE_VARCHAR"
    [] code = 16  -> "MYSQL_TYPE_BIT"
    [] code = 17  -> "MYSQL_TYPE_TIMESTAMP2"
    [] code = 18  -> "MYSQL_TYPE_DATETIME2"
    [] code = 19  -> "MYSQL_TYPE_TIME2"
    [] code = 245 -> "MYSQL_TYPE_JSON"
    [] code = 246 -> "MYSQL_TYPE_NEWDECIMAL"
    [] code = 247 -> "MYSQL_TYPE_ENUM"
    [] code = 248 -> "MYSQL_TYPE_SET"
    [] code = 249 -> "MYSQL_TYPE_TINY_BLOB"
    [] code = 250 -> "MYSQL_TYPE_MEDIUM_BLOB"
    [] code = 251 -> "MYSQL_TYPE_LONG_BLOB"
    [] code = 252 -> "MYSQL_TYPE_BLOB"
    [] code = 253 -> "MYSQL_TYPE_VAR_STRING"
    [] code = 254 -> "MYSQL_TYPE_STRING"
    [] code = 255 -> "MYSQL_TYPE_GEOMETRY"
    [] OTHER      -> "UNKNOWN_TYPE"

\* ------------------------------------------------------- text decoding
\* U+FFFD, what an invalid sequence decodes to
ReplacementChar == 65533

IsCont(b) == b >= 128 /\ b <= 191

\* The first scalar of a non-empty byte sequence, decoded permissively:
\* [cp |-> code point, n |-> bytes used].  An ill-formed sequence gives
\* U+FFFD for its maximal well-formed prefix (at least one byte).
Utf8First(bs) ==
  LET b0 == bs[1]
      has(i) == Len(bs) >= i
      lo2 == CASE b0 = 224 -> 160 [] b0 = 240 -> 144 [] OTHER -> 128
      hi2 == CASE b0 = 237 -> 159 [] b0 = 244 -> 143 [] OTHER -> 191
      need == CASE b0 >= 194 /\ b0 <= 223 -> 2
                [] b0 >= 224 /\ b0 <= 239 -> 3
                [] b0 >= 240 /\ b0 <= 244 -> 4
                [] OTHER -> 0
      ok2 == has(2) /\ bs[2] >= lo2 /\ bs[2] <= hi2
      ok3 == ok2 /\ has(3) /\ IsCont(bs[3])
      ok4 == ok3 /\ has(4) /\ IsCont(bs[4])
  IN  IF b0 < 128 THEN [cp |-> b0, n |-> 1]
      ELSE IF need = 0 THEN [cp |-> ReplacementChar, n |-> 1]
      ELSE IF need = 2 THEN
             IF ok2 THEN [cp |-> (b0 - 192) * 64 + (bs[2] - 128), n |-> 2]
             ELSE [cp |-> ReplacementChar, n |-> 1]
      ELSE IF need = 3 THEN
             IF ok3 THEN [cp |-> (b0 - 224) * 4096 + (bs[2] - 128) * 64
                                  + (bs[3] - 128), n |-> 3]
             ELSE [cp |-> ReplacementChar, n |-> IF ok2 THEN 2 ELSE 1]
      ELSE IF ok4 THEN [cp |-> (b0 - 240) * 262144 + (bs[2] - 128) * 4096
                                + (bs[3] - 128) * 64 + (bs[4] - 128), n |-> 4]
           ELSE [cp |-> ReplacementChar,
                 n |-> IF ok3 THEN 3 ELSE IF ok2 THEN 2 ELSE 1]

\* the bytes of pack from offset i on that one code point can take
Utf8Window(pack, i) ==
  SubSeq(pack, i, IF i + 3 <= Len(pack) THEN i + 3 ELSE Len(pack))

\* a code point (or a replacement) of pack begins at byte i: every byte
\* that is not a continuation byte begins one, and a continuation byte
\* does unless the sequence led by the nearest byte before it takes it
Utf8Starts(pack, i) ==
  \/ ~IsCont(pack[i])
  \/ ~\E j \in 1..(i - 1) :
        /\ i - j <= 3
        /\ ~IsCont(pack[j])
        /\ \A k \in (j + 1)..(i - 1) : IsCont(pack[k])
        /\ i < j + Utf8First(Utf8Window(pack, j)).n

\* the code points of a byte sequence, invalid sequences replaced rather
\* than failing
Utf8Lossy(pack) ==
  LET starts(i) == Utf8Starts(pack, i)
      at == SelectSeq([i \in 1..Len(pack) |-> i], starts)
  IN  [k \in 1..Len(at) |-> Utf8First(Utf8Window(pack, at[k])).cp]

\* the String of the code points cs followed by more NUL characters
String(cs, more) ==
  LET last == CHOOSE i \in 0..Len(cs) :
                /\ i = 0 \/ cs[i] # 0
                /\ \A j \in (i + 1)..Len(cs) : cs[j] = 0
  IN  [chars |-> SubSeq(cs, 1, last),
       nuls |-> WAdd(U(Len(cs) - last), more)]

\* readvalue::read_string_value: bytes to text
read_string_value(pack) == String(Utf8Lossy(pack), << >>)

\* read_string_value of a buffer given as the bytes at its head and the
\* number of zero bytes after them: the first zero byte ends what the head
\* left open, every other one is a NUL character
read_string_value_of(head, zeros) ==
  IF zeros = << >> THEN read_string_value(head)
  ELSE String(Utf8Lossy(head \o <<0>>), WSub(zeros, U(1)))

\* isize::MAX + 1 = 2^63 in base 2^24
TwoTo63 == <<0, 0, 32768>>

\* readvalue::read_string_value_from_len: a buffer of num bytes read from
\* the cursor and decoded as text.  Its callers take a String from it and
\* have no failure to branch on, so on a source that ends before num bytes
\* it either panics or decodes the buffer the failed read left.  A buffer
\* of more than isize::MAX bytes (a wrapped num) cannot be made: the
\* allocation panics.
read_string_value_from_len(d, p, num) ==
  LET panicked == [panic |-> TRUE, ok |-> FALSE,
                   value |-> read_string_value(<< >>), pos |-> p]
  IN  IF ~WLess(num, TwoTo63) THEN {panicked}
      ELSE { [panic |-> FALSE, ok |-> r.ok,
              value |-> read_string_value_of(r.head, r.zeros), pos |-> r.pos]
             : r \in ReadExactInto(d, p, num) }
           \cup (IF \A r \in ReadExactInto(d, p, num) : r.ok THEN {}
                 ELSE {panicked})

\* ---------------------------------------------------- column metadata
\* TableMap::read_one_bytes
read_one_bytes(d, p) ==
  IF CanRead(d, p, 1)
  THEN [ok |-> TRUE, value |-> <<ReadLE(d, p, 1)>>, pos |-> p + 1]
  ELSE [ok |-> FALSE, value |-> << >>, pos |-> p]

\* read_string_meta with the threshold off by one (>= 255)
read_string_meta_ge(d, p) ==
  IF CanRead(d, p, 2)
  THEN LET metadata == ReadLE(d, p, 2)
       IN [ok |-> TRUE, value |-> IF metadata >= 255 THEN <<2>> ELSE <<1>>,
           pos |-> p + 2]
  ELSE [ok |-> FALSE, value |-> << >>, pos |-> p]

\* TableMap::read_string_meta
read_string_meta(d, p) ==
  IF CanRead(d, p, 2)
  THEN LET metadata == ReadLE(d, p, 2)
       IN [ok |-> TRUE, value |-> IF metadata > 255 THEN <<2>> ELSE <<1>>,
           pos |-> p + 2]
  ELSE [ok |-> FALSE, value |-> << >>, pos |-> p]

\* TableMap::read_newdecimal
read_newdecimal(d, p) ==
  IF CanRead(d, p, 2)
  THEN [ok |-> TRUE, value |-> <<ReadLE(d, p, 1), ReadLE(d, p + 1, 1)>>,
        pos |-> p + 2]
  ELSE [ok |-> FALSE, value |-> << >>, pos |-> p]

\* TableMap::read_string_type
read_string_type(d, p, col_type) ==
  IF CanRead(d, p, 2)
  THEN LET type == ReadLE(d, p, 1)
           metadata == ReadLE(d, p + 1, 1)
       IN [ok |-> TRUE,
           value |-> IF col_type # type THEN <<65535>> ELSE <<metadata>>,
           pos |-> p + 2]
  ELSE [ok |-> FALSE, value |-> << >>, pos |-> p]

\* read_column_meta whose default arm takes one metadata byte
read_column_meta_default_reads(d, p, col_type) ==
  LET column_type_info == from_type_code(col_type)
  IN  CASE column_type_info \in {"MYSQL_TYPE_VAR_STRING", "MYSQL_TYPE_VARCHAR"}
             -> read_string_meta(d, p)
        [] column_type_info = "MYSQL_TYPE_NEWDECIMAL" -> read_newdecimal(d, p)
        [] column_type_info = "MYSQL_TYPE_STRING" -> read_string_type(d, p, col_type)
        [] OTHER -> read_one_bytes(d, p)

\* TableMap::read_column_meta: [ok, value, pos]; ok = FALSE is the unwrap
\* of a failed read
read_column_meta(d, p, col_type) ==
  LET column_type_info == from_type_code(col_type)
  IN  CASE column_type_info \in {"MYSQL_TYPE_VAR_STRING", "MYSQL_TYPE_VARCHAR"}
             -> read_string_meta(d, p)
        [] column_type_info \in {"MYSQL_TYPE_BLOB", "MYSQL_TYPE_MEDIUM_BLOB",
                                 "MYSQL_TYPE_LONG_BLOB", "MYSQL_TYPE_TINY_BLOB",
                                 "MYSQL_TYPE_JSON", "MYSQL_TYPE_TIMESTAMP2",
                                 "MYSQL_TYPE_DATETIME2", "MYSQL_TYPE_TIME2",
                                 "MYSQL_TYPE_FLOAT", "MYSQL_TYPE_DOUBLE"}
             -> read_one_bytes(d, p)
        [] column_type_info = "MYSQL_TYPE_NEWDECIMAL" -> read_newdecimal(d, p)
        [] column_type_info = "MYSQL_TYPE_STRING" -> read_string_type(d, p, col_type)
        [] OTHER -> [ok |-> TRUE, value |-> <<0>>, pos |-> p]

RECURSIVE ReadColumns(_, _, _)
\* the loop of TableMap::read_event over column_type_list: the ColumnInfo
\* entries pushed so far, the position reached, and whether a read failed
ReadColumns(d, p, types) ==
  IF types = << >> THEN [ok |-> TRUE, info |-> << >>, pos |-> p]
  ELSE LET col_meta == read_column_meta(d, p, Head(types))
       IN IF ~col_meta.ok THEN [ok |-> FALSE, info |-> << >>, pos |-> p]
          ELSE LET rest == ReadColumns(d, col_meta.pos, Tail(types))
               IN [ok |-> rest.ok,
                   info |-> <<[column_type |-> from_type_code(Head(types)),
                               column_meta |-> col_meta.value]>> \o rest.info,
                   pos |-> rest.pos]

\* ------------------------------------------------------ event layouts
\* The wire layouts the decoders are written against (the layout comments
\* of readevent.rs), used to build the byte sources the model decodes.

\* header: timestamp 4, type_code 1, server_id 4, event_length 4,
\* next_position 4, flags 2; one marker byte before it under "repl"
HeaderBytes(repl, h) ==
  (IF repl THEN <<0>> ELSE << >>)
    \o ToLE(h.timestamp, 4) \o <<h.type_code>> \o ToLE(h.server_id, 4)
    \o ToLE(h.event_length, 4) \o ToLE(h.next_position, 4) \o ToLE(h.flags, 2)

\* query_event: thread_id 4, execute_seconds 4, database_length 1,
\* error_code 2, variable_block_length 2, variable block, database name,
\* sql statement, and four bytes that belong to none of these (the
\* statement is event_length - 19 - 13 - variable_block_length -
\* database_length - 4 bytes long): the one after the database name, which
\* the decoder skips, and three that close the event
QueryBody(f) ==
  ToLE(f.thread_id, 4) \o ToLE(f.execute_seconds, 4) \o <<Len(f.database)>>
    \o ToLE(f.error_code, 2) \o ToLE(Len(f.status_vars), 2) \o f.status_vars
    \o f.database \o <<0>> \o f.command \o f.trailer

\* xid event: xid 8
XidBody(f) == ToLE(f.xid, 8)

\* rotate_log_event: fixed part 8, then the file name to the end of the event
RotateBody(f) == ToLE(f.position, 8) \o f.binlog_file

\* gtid_event: flags 1, SID 16, GNO 8, lt_type 1, last_committed 8,
\* sequence_number 8; an older server's event has no lt_type and nothing
\* after it
GtidBody(f) ==
  <<f.flags>> \o f.sid \o ToLE(f.gno_id, 8)
    \o (IF f.legacy THEN << >>
        ELSE <<f.lt_type>> \o ToLE(f.last_committed, 8)
               \o ToLE(f.sequence_number, 8))

\* table_map_event: table_id 6, reserved 2, database_name_length 1, name,
\* terminator 1, table_name_length 1, name, terminator 1, column count 1,
\* one type byte per column, metadata length 1, metadata, bit field 1,
\* crc 4
TableMapBody(f) ==
  ToLE(f.table_id, 6) \o <<0, 0>>
    \o <<Len(f.database_name)>> \o f.database_name \o <<0>>
    \o <<Len(f.table_name)>> \o f.table_name \o <<0>>
    \o <<Len(f.column_types)>> \o f.column_types
    \o <<Len(Concat(f.column_meta_bytes))>> \o Concat(f.column_meta_bytes)
    \o f.bit_field \o f.crc

BodyBytes(kind, f) ==
  CASE kind = "QueryEvent"     -> QueryBody(f)
    [] kind = "XidEvent"       -> XidBody(f)
    [] kind = "RotateLogEvent" -> RotateBody(f)
    [] kind = "GtidEvent"      -> GtidBody(f)
    [] kind = "TableMapEvent"  -> TableMapBody(f)
    [] OTHER                   -> f.payload

\* the type-code byte of each decoded kind (the inverse of the table of
\* get_type_code_event)
TypeCodeOf(kind) ==
  CASE kind = "QueryEvent"     -> 2
    [] kind = "XidEvent"       -> 16
    [] kind = "RotateLogEvent" -> 4
    [] kind = "GtidEvent"      -> 33
    [] kind = "TableMapEvent"  -> 19

\* header_length of a session: 19, and 20 under "repl"
HeaderLength(repl) == IF repl THEN 20 ELSE 19

\* ------------------------------------------------------------ decoders
NoHeader == [type_code |-> "none"]
NoEvent == [kind |-> "none"]

\* EventHeader::new without the "repl" branch
MarkerLength_never(ct) == 0

\* the bytes EventHeader::new skips before the standard header
MarkerLength(ct) == IF ct = "repl" THEN 1 ELSE 0

\* EventHeader::new at offset p of d: [ok, header, pos]; ok = FALSE is the
\* unwrap of a read that met the end of the source
EventHeader_new(d, p, ct) ==
  LET header_length == 19 + MarkerLength(ct)
      p0 == SeekCurrent(p, MarkerLength(ct))
  IN  IF ~CanRead(d, p0, 19)
      THEN [ok |-> FALSE, header |-> NoHeader, pos |-> p0]
      ELSE [ok |-> TRUE,
            header |-> [timestamp     |-> ReadWide(d, p0, 4),
                        type_code     |-> get_type_code_event(ReadLE(d, p0 + 4, 1)),
                        server_id     |-> ReadWide(d, p0 + 5, 4),
                        event_length  |-> ReadWide(d, p0 + 9, 4),
                        next_position |-> ReadWide(d, p0 + 13, 4),
                        flags         |-> ReadLE(d, p0 + 17, 2),
                        header_length |-> header_length],
            pos |-> p0 + 19]

\* what a decoder call comes to: the record (if any), the position reached,
\* whether a buffer was used after a failed read_exact, whether a
\* remaining-bytes subtraction went below zero
Result(o, e, p, z, n) ==
  [outcome |-> o, event |-> e, pos |-> p, zero_filled |-> z, negative |-> n]

\* the unwrap of a failed read
Panic(p) == Result("panic", NoEvent, p, FALSE, FALSE)

\* the panic of a subtraction with overflow
PanicOverflow(p) == Result("panic", NoEvent, p, FALSE, TRUE)

\* usize subtraction a - b of two values in base 2^24: with overflow
\* checks a result below zero panics, without them it wraps to
\* 2^64 + a - b
UsizeSub(a, b) ==
  IF ~WLess(a, b) THEN {[panic |-> FALSE, value |-> WSub(a, b), wrapped |-> FALSE]}
  ELSE {[panic |-> TRUE, value |-> << >>, wrapped |-> FALSE],
        [panic |-> FALSE, value |-> WSub(WAdd(a, TwoTo64), b), wrapped |-> TRUE]}

\* QueryEvent::read_event: the set of results the call can have
QueryEvent_read_event(h, d, p) ==
  IF ~CanRead(d, p, 13) THEN {Panic(p)}
  ELSE
    LET thread_id == ReadWide(d, p, 4)
        execute_seconds == ReadWide(d, p + 4, 4)
        database_length == ReadLE(d, p + 8, 1)
        error_code == ReadLE(d, p + 9, 2)
        variable_block_length == ReadLE(d, p + 11, 2)
        p1 == SeekCurrent(p + 13, variable_block_length)
    IN  UNION { LET p2 == SeekCurrent(db.pos, 1)
                IN { IF len.panic THEN PanicOverflow(p2)
                     ELSE LET rest == ReadToEnd(d, p2)
                          IN Result("ok",
                                    [kind |-> "QueryEvent",
                                     thread_id |-> thread_id,
                                     execute_seconds |-> execute_seconds,
                                     database_pack |-> db.bytes,
                                     database |-> read_string_value(db.bytes),
                                     command_pak |-> rest.bytes,
                                     command |-> read_string_value(rest.bytes)],
                                    rest.pos, ~db.ok, len.wrapped)
                     : len \in UsizeSub(h.event_length, U(Tell(p2))) }
              : db \in ReadExact(d, p1, database_length) }

\* XidEvent::read_event
XidEvent_read_event(h, d, p) ==
  IF ~CanRead(d, p, 8) THEN {Panic(p)}
  ELSE {Result("ok", [kind |-> "XidEvent", xid |-> ReadWide(d, p, 8)],
               p + 8, FALSE, FALSE)}

\* RotateLog::read_event
RotateLog_read_event(h, d, p) ==
  LET fixed_length == U(8)
      p1 == SeekCurrent(p, 8)
  IN  UNION { IF n1.panic THEN {PanicOverflow(p1)} ELSE
              UNION { IF n2.panic THEN {PanicOverflow(p1)} ELSE
                      { IF binlog_file.panic
                        THEN Result("panic", NoEvent, p1, FALSE,
                                    n1.wrapped \/ n2.wrapped)
                        ELSE Result("ok", [kind |-> "RotateLogEvent",
                                           binlog_file |-> binlog_file.value],
                                    binlog_file.pos, ~binlog_file.ok,
                                    n1.wrapped \/ n2.wrapped)
                        : binlog_file \in
                            read_string_value_from_len(d, p1, n2.value) }
                    : n2 \in UsizeSub(n1.value, fixed_length) }
            : n1 \in UsizeSub(h.event_length, U(h.header_length)) }

\* GtidEvent::read_event
GtidEvent_read_event(h, d, p) ==
  LET p1 == SeekCurrent(p, 1)
  IN  { IF ~CanRead(d, sid.pos, 24) THEN Panic(sid.pos)
        ELSE Result("ok",
                    [kind |-> "GtidEvent",
                     gtid |-> sid.bytes,
                     gno_id |-> ReadWide(d, sid.pos, 8),
                     last_committed |-> ReadWide(d, sid.pos + 8, 8),
                     sequence_number |-> ReadWide(d, sid.pos + 16, 8)],
                    sid.pos + 24, ~sid.ok, FALSE)
        : sid \in ReadExact(d, p1, 16) }

\* TableMap::read_event
TableMap_read_event(h, d, p) ==
  LET p1 == SeekCurrent(p, 8)
  IN IF ~CanRead(d, p1, 1) THEN {Panic(p1)} ELSE
  LET database_length == ReadLE(d, p1, 1)
  IN UNION {
     IF database_name.panic THEN {Panic(p1 + 1)} ELSE
     LET p2 == SeekCurrent(database_name.pos, 1)
     IN IF ~CanRead(d, p2, 1) THEN {Panic(p2)} ELSE
     LET table_length == ReadLE(d, p2, 1)
     IN UNION {
        IF table_name.panic THEN {Panic(p2 + 1)} ELSE
        LET p3 == SeekCurrent(table_name.pos, 1)
        IN IF ~CanRead(d, p3, 1) THEN {Panic(p3)} ELSE
        LET column_count == ReadLE(d, p3, 1)
        IN { LET p4 == SeekCurrent(column_type_list.pos, 1)
                 cols == ReadColumns(d, p4, column_type_list.bytes)
             IN IF ~cols.ok THEN Panic(cols.pos)
                ELSE Result("ok",
                            [kind |-> "TableMapEvent",
                             database_name |-> database_name.value,
                             table_name |-> table_name.value,
                             column_count |-> column_count,
                             column_type_list |-> column_type_list.bytes,
                             column_info |-> cols.info],
                            cols.pos,
                            ~database_name.ok \/ ~table_name.ok
                              \/ ~column_type_list.ok,
                            FALSE)
             : column_type_list \in ReadExact(d, p3 + 1, column_count) }
        : table_name \in
            read_string_value_from_len(d, p2 + 1, U(table_length)) }
     : database_name \in
         read_string_value_from_len(d, p1 + 1, U(database_length)) }

\* ------------------------------------------------------------ inputs
\* text fields: byte strings of at most MaxText bytes over an ASCII byte
\* and a byte that is no UTF-8
TextBytes == {100, 255}

RECURSIVE SeqsUpTo(_, _)
SeqsUpTo(S, n) ==
  IF n = 0 THEN {<< >>}
  ELSE LET shorter == SeqsUpTo(S, n - 1)
       IN shorter \cup {<<x>> \o t : x \in S, t \in {u \in shorter : Len(u) = n - 1}}

Texts == SeqsUpTo(TextBytes, MaxText)

\* column type codes of the table map events: varchar, blob, newdecimal,
\* string, long (no metadata), and a code outside the registry
ColumnCodes == {15, 252, 246, 254, 3, 200}

\* the metadata bytes written for a column of type code, in two variants
MetaBytes(code, variant) ==
  CASE code \in {15, 253} -> IF variant = 0 THEN ToLE(10, 2) ELSE ToLE(300, 2)
    [] code \in {249, 250, 251, 252, 245, 17, 18, 19, 4, 5}
                          -> IF variant = 0 THEN <<3>> ELSE <<200>>
    [] code = 246         -> IF variant = 0 THEN <<10, 2>> ELSE <<65, 30>>
    [] code = 254         -> IF variant = 0 THEN <<254, 40>> ELSE <<247, 1>>
    [] OTHER              -> << >>

\* and the column_meta the layout above stands for
MetaOf(code, variant) ==
  CASE code \in {15, 253} -> IF variant = 0 THEN <<1>> ELSE <<2>>
    [] code \in {249, 250, 251, 252, 245, 17, 18, 19, 4, 5}
                          -> IF variant = 0 THEN <<3>> ELSE <<200>>
    [] code = 246         -> IF variant = 0 THEN <<10, 2>> ELSE <<65, 30>>
    [] code = 254         -> IF variant = 0 THEN <<40>> ELSE <<65535>>
    [] OTHER              -> <<0>>

QueryEvents ==
  { [kind |-> "QueryEvent",
     f |-> [thread_id |-> 66051, execute_seconds |-> 258, error_code |-> 0,
            status_vars |-> sv, database |-> db, command |-> cmd,
            trailer |-> <<11, 12, 13>>]]
    : sv \in {<< >>, <<1, 2>>}, db \in Texts, cmd \in Texts }

XidEvents ==
  { [kind |-> "XidEvent", f |-> [xid |-> x]] : x \in {7, 16909060} }

RotateEvents ==
  { [kind |-> "RotateLogEvent", f |-> [position |-> 4, binlog_file |-> t]]
    : t \in Texts }

GtidSid == <<1, 2, 3, 4, 5, 6, 7, 8, 9, 10, 11, 12, 13, 14, 15, 16>>

GtidEvents ==
  { [kind |-> "GtidEvent",
     f |-> [flags |-> 1, sid |-> GtidSid, gno_id |-> 513,
            lt_type |-> 2, last_committed |-> 5, sequence_number |-> 6,
            legacy |-> lg]]
    : lg \in BOOLEAN }

TableMapEvents ==
  { [kind |-> "TableMapEvent",
     f |-> [table_id |-> 108,
            database_name |-> IF v = 0 THEN << >> ELSE <<195, 169>>,
            table_name |-> <<116>>,
            column_types |-> types,
            column_meta_bytes |->
              [i \in 1..Len(types) |-> MetaBytes(types[i], (v + i) % 2)],
            column_meta |->
              [i \in 1..Len(types) |-> MetaOf(types[i], (v + i) % 2)],
            bit_field |-> <<1>>, crc |-> <<21, 22, 23, 24>>]]
    : v \in {0, 1}, types \in SeqsUpTo(ColumnCodes, MaxCols) }

\* events this core has no decoder for: the row events, xa prepare, and
\* codes outside the table
OtherEvents ==
  { [kind |-> get_type_code_event(c), type_code |-> c, f |-> [payload |-> <<9, 9>>]]
    : c \in {30, 31, 32, 38, 0, 255} }

Catalogue ==
  QueryEvents \cup XidEvents \cup RotateEvents \cup GtidEvents
    \cup TableMapEvents \cup OtherEvents

\* the events put before and after the event under decode
Fillers ==
  { [kind |-> "XidEvent", f |-> [xid |-> 7]],
    [kind |-> "QueryEvent",
     f |-> [thread_id |-> 1, execute_seconds |-> 0, error_code |-> 0,
            status_vars |-> <<1, 2>>, database |-> <<100>>, command |-> <<99>>,
            trailer |-> <<11, 12, 13>>]] }

EventTypeCode(e) ==
  IF e.kind \in {"QueryEvent", "XidEvent", "RotateLogEvent", "GtidEvent",
                 "TableMapEvent"}
  THEN TypeCodeOf(e.kind) ELSE e.type_code

\* One event laid out at offset start: its bytes and what was written.
\* declared = -1 writes the true length, header included, as event_length.
LayEvent(e, repl, start, declared) ==
  LET body == BodyBytes(e.kind, e.f)
      total == HeaderLength(repl) + Len(body)
      event_length == IF declared = -1 THEN total ELSE declared
      h == [timestamp |-> 1569369600, type_code |-> EventTypeCode(e),
            server_id |-> 66051, event_length |-> event_length,
            next_position |-> start + total, flags |-> 513]
  IN  [kind |-> e.kind, f |-> e.f, h |-> h, start |-> start,
       body_start |-> start + HeaderLength(repl), length |-> total,
       well_formed |-> declared = -1,
       bytes |-> HeaderBytes(repl, h) \o body]

RECURSIVE LayStream(_, _, _, _, _)
\* the events es laid out one after the other from offset start; the event
\* at index at gets the declared event_length
LayStream(es, repl, start, at, declared) ==
  IF es = << >> THEN << >>
  ELSE LET first == LayEvent(Head(es), repl, start,
                             IF at = 1 THEN declared ELSE -1)
       IN <<first>> \o LayStream(Tail(es), repl, start + first.length,
                                 at - 1, declared)

RECURSIVE StreamBytes(_)
StreamBytes(laid) ==
  IF laid = << >> THEN << >> ELSE Head(laid).bytes \o StreamBytes(Tail(laid))

\* what the model keeps of a laid-out event (everything but its bytes)
Describe(l) ==
  [kind |-> l.kind, f |-> l.f, h |-> l.h, start |-> l.start,
   body_start |-> l.body_start, length |-> l.length,
   well_formed |-> l.well_formed]

NoGhost == [start |-> 0, zero_filled |-> FALSE, negative |-> FALSE]

Start(ct, laid, data) ==
  /\ conntype = ct
  /\ buf = [data |-> data, pos |-> 0]
  /\ pc = "header"
  /\ header = NoHeader
  /\ event = NoEvent
  /\ outcome = "none"
  /\ ghost = NoGhost
  /\ input = [i \in 1..Len(laid) |-> Describe(laid[i])]
  /\ decoded = << >>

\* a declared event_length below what the event holds, for the two
\* decoders that subtract from it
ShortLengths(e, repl) ==
  IF e.kind \in {"QueryEvent", "RotateLogEvent"}
  THEN {0, HeaderLength(repl) + 4} ELSE {}

\* Streams of 1..MaxEvents complete events: one event of the catalogue,
\* fillers around it.
Init ==
  \E ct \in {"repl", "file"}, k \in 1..MaxEvents :
    \E at \in 1..k, e \in Catalogue :
      \E fill \in [(1..k) \ {at} -> Fillers],
         declared \in {-1} \cup ShortLengths(e, ct = "repl") :
        LET es == [i \in 1..k |-> IF i = at THEN e ELSE fill[i]]
            laid == LayStream(es, ct = "repl", 0, at, declared)
        IN Start(ct, laid, StreamBytes(laid))

\* One well-formed event of the catalogue, the source ending inside it.
InitTrunc ==
  \E ct \in {"repl", "file"}, e \in Catalogue :
    LET laid == LayStream(<<e>>, ct = "repl", 0, 1, -1)
        bytes == StreamBytes(laid)
    IN \E cut \in 0..(Len(bytes) - 1) :
         Start(ct, laid, SubSeq(bytes, 1, cut))

\* header field values of the header-only sources
HeaderTemplates ==
  { [timestamp |-> 1569369600, server_id |-> 66051, event_length |-> 19,
     next_position |-> 1027, flags |-> 513],
    [timestamp |-> 1, server_id |-> 16777216, event_length |-> 65536,
     next_position |-> 0, flags |-> 32768] }

\* A header with every type code, complete or cut short, and no body.
InitHeader ==
  \E ct \in {"repl", "file", "REPL", ""}, c \in Byte, t \in HeaderTemplates :
    LET h == [timestamp |-> t.timestamp, type_code |-> c,
              server_id |-> t.server_id, event_length |-> t.event_length,
              next_position |-> t.next_position, flags |-> t.flags]
        bytes == HeaderBytes(ct = "repl", h)
        laid == <<[kind |-> get_type_code_event(c), f |-> [payload |-> << >>],
                   h |-> h, start |-> 0, body_start |-> Len(bytes),
                   length |-> Len(bytes),
                   well_formed |-> t.event_length = Len(bytes)]>>
    IN \E avail \in 0..Len(bytes) :
         Start(ct, laid, SubSeq(bytes, 1, avail))

\* ------------------------------------------------------------ actions
Decoders ==
  {"QueryEvent", "XidEvent", "RotateLogEvent", "GtidEvent", "TableMapEvent"}

\* the caller reads a header where it stands: at the start of the source,
\* and after each decoded event while bytes remain (one header more than
\* the longest stream holds, at most)
DecodeHeader ==
  /\ pc = "header"
  /\ (decoded = << >> \/ buf.pos < Len(buf.data))
  /\ Len(decoded) <= MaxEvents
  /\ LET r == EventHeader_new(buf.data, buf.pos, conntype)
     IN /\ buf' = [buf EXCEPT !.pos = r.pos]
        /\ header' = r.header
        /\ pc' = IF r.ok THEN "body" ELSE "stopped"
        /\ outcome' = IF r.ok THEN "header" ELSE "panic"
        /\ event' = NoEvent
        /\ ghost' = [NoGhost EXCEPT !.start = buf.pos]
        /\ decoded' = Append(decoded, buf.pos)
  /\ UNCHANGED <<conntype, input>>

Apply(r) ==
  /\ buf' = [buf EXCEPT !.pos = r.pos]
  /\ event' = r.event
  /\ outcome' = r.outcome
  /\ pc' = IF r.outcome = "ok" THEN "header" ELSE "stopped"
  /\ ghost' = [ghost EXCEPT !.zero_filled = r.zero_filled,
                             !.negative = r.negative]
  /\ UNCHANGED <<conntype, header, input, decoded>>

DecodeQuery ==
  /\ pc = "body" /\ header.type_code = "QueryEvent"
  /\ \E r \in QueryEvent_read_event(header, buf.data, buf.pos) : Apply(r)

DecodeXid ==
  /\ pc = "body" /\ header.type_code = "XidEvent"
  /\ \E r \in XidEvent_read_event(header, buf.data, buf.pos) : Apply(r)

DecodeRotate ==
  /\ pc = "body" /\ header.type_code = "RotateLogEvent"
  /\ \E r \in RotateLog_read_event(header, buf.data, buf.pos) : Apply(r)

DecodeGtid ==
  /\ pc = "body" /\ header.type_code = "GtidEvent"
  /\ \E r \in GtidEvent_read_event(header, buf.data, buf.pos) : Apply(r)

DecodeTableMap ==
  /\ pc = "body" /\ header.type_code = "TableMapEvent"
  /\ \E r \in TableMap_read_event(header, buf.data, buf.pos) : Apply(r)

\* a kind without a decoder here: refused, and the caller moves on to the
\* next event by the header's event_length, as far as the source goes
SkipUnsupported ==
  /\ pc = "body" /\ header.type_code \notin Decoders
  /\ LET target == WAdd(U(ghost.start), header.event_length)
     IN buf' = [buf EXCEPT !.pos = IF WLess(U(Len(buf.data)), target)
                                   THEN Len(buf.data) ELSE Num(target)]
  /\ outcome' = "UnsupportedEventKind"
  /\ pc' = "header"
  /\ UNCHANGED <<conntype, header, event, ghost, input, decoded>>

\* the caller stops at the end of the source
EndOfSource ==
  /\ pc = "header" /\ decoded # << >> /\ buf.pos >= Len(buf.data)
  /\ pc' = "stopped"
  /\ UNCHANGED <<conntype, buf, header, event, outcome, ghost, input, decoded>>

Next ==
  \/ DecodeHeader
  \/ DecodeQuery
  \/ DecodeXid
  \/ DecodeRotate
  \/ DecodeGtid
  \/ DecodeTableMap
  \/ SkipUnsupported
  \/ EndOfSource

Spec == Init /\ [][Next]_vars

SpecTrunc == InitTrunc /\ [][Next]_vars

SpecHeader == InitHeader /\ [][Next]_vars

\* ------------------------------------------- column metadata on its own
\* the second byte of the two-byte metadata sources: every byte for the
\* kinds that read two bytes, a few for the kinds that leave it unread
MetaSecond(c) ==
  IF from_type_code(c) \in {"MYSQL_TYPE_VAR_STRING", "MYSQL_TYPE_VARCHAR",
                            "MYSQL_TYPE_NEWDECIMAL", "MYSQL_TYPE_STRING"}
  THEN Byte ELSE {0, 1, 2, 254}

\* read_column_meta for a type code over a source of up to two bytes
InitMeta ==
  \E c \in Byte, b1 \in Byte, avail \in 0..2 :
   \E b2 \in MetaSecond(c) :
    /\ conntype = "file"
    /\ buf = [data |-> SubSeq(<<b1, b2>>, 1, avail), pos |-> 0]
    /\ pc = "meta"
    /\ header = NoHeader
    /\ event = NoEvent
    /\ outcome = "none"
    /\ ghost = NoGhost
    /\ input = <<[kind |-> "column", col_type |-> c]>>
    /\ decoded = << >>

\* one turn of the loop of TableMap::read_event
ReadColumnMeta ==
  /\ pc = "meta"
  /\ LET col_type == input[1].col_type
         col_meta == read_column_meta(buf.data, buf.pos, col_type)
     IN /\ buf' = [buf EXCEPT !.pos = col_meta.pos]
        /\ outcome' = IF col_meta.ok THEN "ok" ELSE "panic"
        /\ event' = IF col_meta.ok
                    THEN [kind |-> "ColumnInfo",
                          column_type |-> from_type_code(col_type),
                          column_meta |-> col_meta.value]
                    ELSE NoEvent
  /\ pc' = "stopped"
  /\ UNCHANGED <<conntype, header, ghost, input, decoded>>

NextMeta == ReadColumnMeta

SpecMeta == InitMeta /\ [][NextMeta]_vars

\* ------------------------------------------------------------- claims
\* the event of the source the decoder is at, when it began at its start
Aligned ==
  /\ Len(decoded) \in 1..Len(input)
  /\ ghost.start = input[Len(decoded)].start

Cur == input[Len(decoded)]

\* a body decoder has returned a record of kind k
Returned(k) == outcome = "ok" /\ event.kind = k

\* the source holds every byte of the events written to it
Complete == Len(buf.data) = input[Len(input)].start + input[Len(input)].length

\* C1: a Query decode that began at the start of a well-formed Query event
\* ends with the cursor at event start + event_length and with exactly the
\* bytes of the event that were left when the command was read (its
\* statement and the bytes that close it) as the command.
C1_QueryReadsOnlyItsEvent ==
  (Returned("QueryEvent") /\ Aligned /\ Cur.well_formed)
    => /\ header.event_length = U(Cur.length)
       /\ buf.pos = Cur.start + Cur.length
       /\ event.command_pak = Cur.f.command \o Cur.f.trailer

\* C2: a header decode over a source that ends before the fixed header is
\* complete ends in the truncated-header error, not in a panic.
C2_TruncatedHeaderIsAnError ==
  (pc = "stopped" /\ header = NoHeader /\ decoded # << >>
     /\ Len(buf.data) - ghost.start < HeaderLength(conntype = "repl"))
    => outcome = "TruncatedHeader"

\* C3: no body decoder returns a record one of whose fields was taken from
\* a buffer that a failed read left unfilled.
C3_NoRecordFromAFailedRead ==
  ghost.zero_filled => outcome # "ok"

\* C4: when a remaining-bytes subtraction is negative the decode ends in a
\* decode error: it neither panics nor returns a record.
C4_NegativeLengthIsADecodeError ==
  ghost.negative => outcome \notin {"panic", "ok"}

\* C5: each of the five body decoders, begun right after the header of a
\* well-formed event, returns with the cursor at event start +
\* event_length, and every header of the stream is read at the start of
\* its event.
C5_DecoderConsumesItsBody ==
  /\ (outcome = "ok" /\ event.kind \in Decoders /\ Aligned /\ Cur.well_formed)
       => buf.pos = Cur.start + Cur.length
  /\ (\A i \in 1..Len(input) : input[i].well_formed)
       => \A i \in 1..Len(decoded) :
            i <= Len(input) /\ decoded[i] = input[i].start

\* C6: over the same standard header bytes, "repl" gives header_length 20
\* and a cursor 20 bytes on, any other mode 19 and 19, and the decoded
\* fields are the written ones in both modes.
C6_ReplSkipsOneByte ==
  (pc = "body" /\ Len(decoded) = 1)
    => /\ (conntype = "repl" => header.header_length = 20 /\ buf.pos = 20)
       /\ (conntype # "repl" => header.header_length = 19 /\ buf.pos = 19)
       /\ header.timestamp = U(Cur.h.timestamp)
       /\ header.type_code = Cur.kind
       /\ header.server_id = U(Cur.h.server_id)
       /\ header.event_length = U(Cur.h.event_length)
       /\ header.next_position = U(Cur.h.next_position)
       /\ header.flags = Cur.h.flags

C6_Witness ==
  /\ pc = "body" /\ Aligned /\ conntype = "repl"
  /\ header.header_length = 20 /\ buf.pos = 20
  /\ header.flags = 32768 /\ header.event_length = U(65536)

\* C7: a Gtid event that ends after the transaction sequence number decodes
\* to the written gtid and gno_id with last_committed = 0 and
\* sequence_number = 0.
C7_LegacyGtidDecodes ==
  (Aligned /\ Cur.kind = "GtidEvent" /\ Cur.f.legacy
     /\ pc # "body" /\ outcome # "header" /\ outcome # "none")
    => /\ Returned("GtidEvent")
       /\ event.gtid = Cur.f.sid
       /\ event.gno_id = U(Cur.f.gno_id)
       /\ event.last_committed = U(0)
       /\ event.sequence_number = U(0)

\* C8: a TableMap decode over a complete body with N type codes returns N
\* column_info entries, the i-th with the kind of the i-th code and the
\* metadata written for it, [0] and no metadata byte for a code without
\* metadata, and ends at the end of the metadata.
C8_ColumnInfoFollowsTypes ==
  (Returned("TableMapEvent") /\ Aligned /\ Cur.kind = "TableMapEvent" /\ Complete)
    => LET types == Cur.f.column_types
       IN /\ event.column_count = Len(types)
          /\ Len(event.column_info) = event.column_count
          /\ \A i \in 1..Len(types) :
               /\ event.column_info[i].column_type = from_type_code(types[i])
               /\ event.column_info[i].column_meta = Cur.f.column_meta[i]
               /\ (types[i] \in {3, 200}
                     => event.column_info[i].column_meta = <<0>>)
          /\ buf.pos = Cur.start + Cur.length
                        - Len(Cur.f.bit_field) - Len(Cur.f.crc)

C8_Witness ==
  /\ Returned("TableMapEvent") /\ Aligned /\ Complete
  /\ Cur.f.column_types = <<200, 15>>
  /\ Len(event.column_info) = 2
  /\ event.column_info[1].column_type = "UNKNOWN_TYPE"
  /\ event.column_info[1].column_meta = <<0>>
  /\ event.column_info[2].column_meta = <<2>>

\* the metadata bytes of a column-metadata source and what was consumed
MetaByte(i) == buf.data[i]

\* C9: read_column_meta gives, family by family, the list of the table and
\* consumes the bytes it names: [2] or [1] for a two-byte value above 255
\* or not (var-string, varchar); the byte itself (blob family, json,
\* timestamp2, datetime2, time2, float, double); both bytes (decimal);
\* [65535] for a stored type other than the declared type code, else the
\* metadata byte (string); [0] and no byte for every other kind.
\* The string family is the columns declared MYSQL_TYPE_STRING: an enum or
\* a set column is one of them, told by a stored type code that differs
\* from the declared one (it is this difference that gives [65535]), so a
\* column declared with the code of MYSQL_TYPE_ENUM or MYSQL_TYPE_SET
\* itself is of "any other" kind.
C9_ColumnMetaTable ==
  (pc = "stopped" /\ input[1].kind = "column" /\ Len(buf.data) = 2)
    => LET c == input[1].col_type
           family == from_type_code(c)
           m == MetaByte(1) + 256 * MetaByte(2)
       IN /\ outcome = "ok"
          /\ CASE family \in {"MYSQL_TYPE_VAR_STRING", "MYSQL_TYPE_VARCHAR"}
                    -> /\ event.column_meta = (IF m > 255 THEN <<2>> ELSE <<1>>)
                       /\ (m = 300 => event.column_meta = <<2>>)
                       /\ (m = 10 => event.column_meta = <<1>>)
                       /\ (m = 255 => event.column_meta = <<1>>)
                       /\ (m = 256 => event.column_meta = <<2>>)
                       /\ buf.pos = 2
               [] family \in {"MYSQL_TYPE_TINY_BLOB", "MYSQL_TYPE_MEDIUM_BLOB",
                              "MYSQL_TYPE_LONG_BLOB", "MYSQL_TYPE_BLOB",
                              "MYSQL_TYPE_JSON", "MYSQL_TYPE_TIMESTAMP2",
                              "MYSQL_TYPE_DATETIME2", "MYSQL_TYPE_TIME2",
                              "MYSQL_TYPE_FLOAT", "MYSQL_TYPE_DOUBLE"}
                    -> event.column_meta = <<MetaByte(1)>> /\ buf.pos = 1
               [] family = "MYSQL_TYPE_NEWDECIMAL"
                    -> /\ event.column_meta = <<MetaByte(1), MetaByte(2)>>
                       /\ (m = 10 + 256 * 2 => event.column_meta = <<10, 2>>)
                       /\ buf.pos = 2
               [] family = "MYSQL_TYPE_STRING"
                    -> /\ event.column_meta
                            = (IF MetaByte(1) # c THEN <<65535>> ELSE <<MetaByte(2)>>)
                       /\ buf.pos = 2
               [] OTHER
                    -> event.column_meta = <<0>> /\ buf.pos = 0

C9_Witness ==
  /\ pc = "stopped" /\ outcome = "ok"
  /\ input[1].kind = "column" /\ input[1].col_type = 246
  /\ buf.data = <<10, 2>>
  /\ event.column_type = "MYSQL_TYPE_NEWDECIMAL"
  /\ event.column_meta = <<10, 2>> /\ buf.pos = 2

\* C10: the kind of a header is the table's kind for the nine listed type
\* codes and UnknownEvent for every other byte, and a complete header
\* decodes whatever its type code.
C10_ClassificationIsTotal ==
  (Len(decoded) = 1 /\ ghost.start = 0
     /\ Len(buf.data) >= HeaderLength(conntype = "repl"))
    => LET c == input[1].h.type_code
       IN /\ header # NoHeader
          /\ header.type_code =
               (CASE c = 4  -> "RotateLogEvent"
                  [] c = 2  -> "QueryEvent"
                  [] c = 33 -> "GtidEvent"
                  [] c = 19 -> "TableMapEvent"
                  [] c = 30 -> "WriteEvent"
                  [] c = 31 -> "UpdateEvent"
                  [] c = 32 -> "DeleteEvent"
                  [] c = 16 -> "XidEvent"
                  [] c = 38 -> "XAPREPARELOGEVENT"
                  [] OTHER  -> "UNKNOWNEVENT")

C10_Witness ==
  /\ pc = "body" /\ Len(decoded) = 1
  /\ input[1].h.type_code = 38
  /\ header.type_code = "XAPREPARELOGEVENT"

====
